---- MODULE Spec2Model ----
(***************************************************************************)
(* Model of streamlit_app.py: the role-gated two-stage brief workflow.     *)
(*                                                                         *)
(* One Streamlit script run is a sequence of steps separated by the        *)
(* blocking HTTP requests of the script (GET /projects, GET /users,        *)
(* POST /upload, POST /submit-content); pc is the position of the script.  *)
(* st.session_state is the function session_state: a key is "in" the       *)
(* session exactly when it is in DOMAIN session_state.                     *)
(***************************************************************************)
EXTENDS Integers, Sequences, FiniteSets, TLC

VARIABLES
    session_state,  \* st.session_state
    pc,             \* position of the running script ("idle" between runs)
    rerun,          \* st.rerun() was called: the next run has default widgets
    script,         \* the page/tab function of the current or last run
    pressed,        \* the button that triggered the current or last run
    outcome,        \* how the current or last run ended
    http,           \* requests issued by the current or last run, in order
    reported,       \* st.error / st.warning messages of the last step of the run
    response,       \* the response received to the last POST of this run
    frame,          \* locals of the suspended script that are used later
    download        \* the st.download_button the last run rendered

vars == <<session_state, pc, rerun, script, pressed, outcome, http, reported,
          response, frame, download>>

(***************************************************************************)
(* Bounds                                                                  *)
(***************************************************************************)
MaxProjects == 2      \* longest project listing GET /projects returns
MaxUsers == 2         \* longest user listing GET /users returns
NumBriefIds == 2      \* number of distinct project_brief_id values

(***************************************************************************)
(* Python values                                                           *)
(***************************************************************************)
NULL == "None"                 \* Python None / JSON null / absent dict key
                               \* read with .get

\* bool(v) for the strings of the model: None and "" are falsy
Truthy(v) == v \notin {NULL, ""}

\* dict.get / st.session_state.get(k, None)
Get(s, k) == IF k \in DOMAIN s THEN s[k] ELSE NULL

\* st.session_state[k] = v
Put(s, k, v) == [a \in (DOMAIN s) \cup {k} |-> IF a = k THEN v ELSE s[a]]

Has(k) == k \in DOMAIN session_state

\* str.strip() on the texts the widgets of the model can hold
Whitespace == {"", "   "}
Strip(t) == IF t \in Whitespace THEN "" ELSE t

(***************************************************************************)
(* Backend payloads                                                        *)
(***************************************************************************)
ProjectId(i) == "p" \o ToString(i)
UserId(i) == "u" \o ToString(i)
Email(i) == "e" \o ToString(i)
BriefIds == {"PB" \o ToString(i) : i \in 1..NumBriefIds}

\* a project of the listing; name NULL is a project without a "name" key
ProjectNames == {"Acme", NULL}
ProjectStatus == {"active", "archived"}
ProjectShapes == [name : ProjectNames, status : ProjectStatus]

RECURSIVE SeqsUpTo(_, _)
SeqsUpTo(S, n) ==
    IF n = 0 THEN {<<>>}
    ELSE LET shorter == SeqsUpTo(S, n - 1)
         IN shorter \cup {Append(q, x) : q \in {r \in shorter : Len(r) = n - 1}, x \in S}

\* the backend assigns ids; here the id of a project is its position
ProjectListings ==
    {[i \in 1..Len(q) |-> [id |-> ProjectId(i), name |-> q[i].name, status |-> q[i].status]] :
        q \in SeqsUpTo(ProjectShapes, MaxProjects)}

\* names are token sequences; the token " (" is the separator that
\* split(" (") looks for
UserNames == {<<"Jane">>, <<"Jane", " (", "PM)">>}
UserShapes == [name : UserNames, has_id : BOOLEAN]
UserListings ==
    {[i \in 1..Len(q) |-> [name |-> q[i].name, email |-> Email(i),
                           basecamp_user_id |-> IF q[i].has_id THEN UserId(i) ELSE NULL]] :
        q \in SeqsUpTo(UserShapes, MaxUsers)}

\* requests.get(...) then .json(): raises (timeout, connection, bad JSON),
\* or a status code with a parsed body {success, <listing>}
ListingResponses(Listings) ==
    {[raises |-> TRUE, status_code |-> 0, success |-> FALSE, listing |-> <<>>]}
    \cup {[raises |-> FALSE, status_code |-> 500, success |-> FALSE, listing |-> <<>>]}
    \cup {[raises |-> FALSE, status_code |-> 200, success |-> FALSE, listing |-> <<>>]}
    \cup {[raises |-> FALSE, status_code |-> 200, success |-> TRUE, listing |-> l] :
            l \in Listings}

\* The JSON value of a POST /upload response, by the shape the code reads:
\* shape                 "object" or "nonobject" (list, string, number, null)
\* report_data           "missing", "null" or "object"
\* project_brief_id      report_data.project_brief_id, NULL when not carried
\* basecamp_integration  "missing", "string" (a truthy non-object) or "object"
\* errors                basecamp_integration.errors is non-empty
Stage1Values ==
    {[shape |-> "nonobject", report_data |-> "missing", project_brief_id |-> NULL,
      basecamp_integration |-> "missing", errors |-> FALSE]}
    \cup {[shape |-> "object", report_data |-> rd, project_brief_id |-> p,
           basecamp_integration |-> bi, errors |-> e] :
            rd \in {"missing", "null", "object"}, p \in BriefIds \cup {NULL},
            bi \in {"missing", "string", "object"}, e \in BOOLEAN}

\* canonical values only: fields of absent sub-objects are not carried
Stage1Bodies ==
    {v \in Stage1Values :
        /\ (v.report_data # "object" => v.project_brief_id = NULL)
        /\ (v.basecamp_integration # "object" => v.errors = FALSE)}

\* The JSON value of a POST /submit-content response
Stage2Bodies ==
    {[shape |-> "nonobject", basecamp_integration |-> "missing", errors |-> FALSE]}
    \cup {[shape |-> "object", basecamp_integration |-> bi, errors |-> FALSE] :
            bi \in {"missing", "string", "object"}}
    \cup {[shape |-> "object", basecamp_integration |-> "object", errors |-> TRUE]}

NoBody1 == [shape |-> "nonobject", report_data |-> "missing", project_brief_id |-> NULL,
            basecamp_integration |-> "missing", errors |-> FALSE]
NoBody2 == [shape |-> "nonobject", basecamp_integration |-> "missing", errors |-> FALSE]

\* requests.post(...): raises Timeout / ConnectionError, or returns a status
\* code and a body text that .json() parses (json) to value or rejects
PostResponses(Bodies, none) ==
    {[exc |-> x, status_code |-> 0, json |-> FALSE, value |-> none] :
        x \in {"Timeout", "ConnectionError"}}
    \cup {[exc |-> "none", status_code |-> 500, json |-> FALSE, value |-> none]}
    \cup {[exc |-> "none", status_code |-> 200, json |-> FALSE, value |-> none]}
    \cup {[exc |-> "none", status_code |-> 200, json |-> TRUE, value |-> v] : v \in Bodies}

ProjectsResponses == ListingResponses(ProjectListings)
UsersResponses == ListingResponses(UserListings)
UploadResponses == PostResponses(Stage1Bodies, NoBody1)
SubmitResponses == PostResponses(Stage2Bodies, NoBody2)

NoResponse == [exc |-> "none", status_code |-> 0, json |-> FALSE, value |-> NoBody1]
NoFrame == [content_writer_id |-> NULL, uploaded_file |-> NULL,
            designer_id |-> NULL, content_file |-> NULL, content_text |-> ""]
NoDownload == [kind |-> "none", data |-> NoBody1, file_name |-> <<>>]

(***************************************************************************)
(* Initial state: the first run of main() has shown the role page          *)
(***************************************************************************)
Init ==
    /\ session_state = [user_role |-> NULL]
    /\ pc = "idle"
    /\ rerun = FALSE
    /\ script = "show_role_selection_page"
    /\ pressed = "none"
    /\ outcome = "done"
    /\ http = <<>>
    /\ reported = {}
    /\ response = NoResponse
    /\ frame = NoFrame
    /\ download = NoDownload


(***************************************************************************)
(* Widgets                                                                 *)
(***************************************************************************)
SelectPrompt == "Select a project..."
OtherCustom == "Other - Custom Project"
CustomNames == {"", "   ", "New"}          \* st.text_input values
FileNames == {"brief.pdf"}                 \* st.file_uploader values (brief)
ContentFiles == {"content.docx"}           \* st.file_uploader values (content)
ContentTexts == {"", "   ", "draft"}       \* st.text_area values
NoneOption == <<"None">>

\* A run in which the button is not pressed does not read the file and text
\* widgets: one value of each stands for all of them.
WidgetsMatter(button, file, text) == button \/ (file = NULL /\ text = "")

\* next(i for i in 1..len(q) if q[i] == x, 0)
FirstIndex(q, x) ==
    LET hits == {i \in 1..Len(q) : q[i] = x}
    IN IF hits = {} THEN 0 ELSE CHOOSE i \in hits : \A j \in hits : i <= j

\* the "name" of every entry of a listing, in order
Names(listing) == [i \in 1..Len(listing) |-> listing[i].name]

\* p.get("name", "Unnamed Project")
OptionName(p) == IF p.name = NULL THEN "Unnamed Project" ELSE p.name

IsActive(p) == p.status = "active"

\* options of the project selectbox
ProjectOptions(projects) ==
    <<SelectPrompt>>
    \o [i \in 1..Len(SelectSeq(projects, IsActive)) |->
            OptionName(SelectSeq(projects, IsActive)[i])]
    \o <<OtherCustom>>

\* f"{user['name']} ({user['email']})"
FormatOption(user) == user.name \o <<" (", user.email, ")">>

\* option.split(" (")[0]
SplitName(option) ==
    LET cut == FirstIndex(option, " (")
    IN IF cut = 0 THEN option ELSE SubSeq(option, 1, cut - 1)

HasBasecampId(user) == Truthy(user.basecamp_user_id)

\* options of a recipient selectbox
RecipientOptions(recipients) ==
    <<NoneOption>> \o [i \in 1..Len(recipients) |-> FormatOption(recipients[i])]

\* Recipients that offers every user of the listing (no filter of line 328)
Recipients_Unfiltered(resp) ==
    IF ~resp.raises /\ resp.status_code = 200 /\ resp.success
    THEN resp.listing
    ELSE <<>>

\* the selectbox is rendered: 200, success, a non-empty listing and at
\* least one user with a basecamp_user_id
Recipients(resp) ==
    IF ~resp.raises /\ resp.status_code = 200 /\ resp.success
    THEN SelectSeq(resp.listing, HasBasecampId)
    ELSE <<>>

(***************************************************************************)
(* Script runs                                                             *)
(***************************************************************************)
\* a run starts: the records of the previous run are cleared
StartRun(fn, button) ==
    /\ script' = fn
    /\ pressed' = button
    /\ response' = NoResponse
    /\ frame' = NoFrame
    /\ download' = NoDownload

\* a run ends
EndRun(how) ==
    /\ pc' = "idle"
    /\ rerun' = FALSE
    /\ outcome' = how

Role == session_state["user_role"]

\* show_role_selection_page: one of the two "Continue as ..." buttons
SelectRole(role) ==
    /\ pc = "idle" /\ ~rerun
    /\ Role = NULL
    /\ StartRun("show_role_selection_page", "continue_" \o role)
    /\ session_state' = Put(session_state, "user_role", role)
    /\ pc' = "idle" /\ rerun' = TRUE /\ outcome' = "rerun"
    /\ http' = <<>> /\ reported' = {}

\* ChangeRole that discards the whole session
ChangeRole_Discarding ==
    /\ pc = "idle" /\ ~rerun
    /\ Role # NULL
    /\ StartRun(IF Role = "brand_manager" THEN "show_brand_manager_page"
                ELSE "show_content_writer_page", "change_role")
    /\ session_state' = [user_role |-> NULL]
    /\ pc' = "idle" /\ rerun' = TRUE /\ outcome' = "rerun"
    /\ http' = <<>> /\ reported' = {}

\* the "Change Role" button of either dashboard header
ChangeRole ==
    /\ pc = "idle" /\ ~rerun
    /\ Role # NULL
    /\ StartRun(IF Role = "brand_manager" THEN "show_brand_manager_page"
                ELSE "show_content_writer_page", "change_role")
    /\ session_state' = Put(session_state, "user_role", NULL)
    /\ pc' = "idle" /\ rerun' = TRUE /\ outcome' = "rerun"
    /\ http' = <<>> /\ reported' = {}

\* the rerun after "Change Role": main() shows the role page, no button
ShowRoleSelectionPage ==
    /\ pc = "idle" /\ rerun
    /\ Role = NULL
    /\ StartRun("show_role_selection_page", "none")
    /\ EndRun("done")
    /\ http' = <<>> /\ reported' = {}
    /\ UNCHANGED session_state


(***************************************************************************)
(* upload_and_analyze_tab                                                  *)
(***************************************************************************)
\* what a section of the tab does, as a record: update says whether the
\* two selected_project keys of the session are assigned (to id and name)
Cleared(msgs) ==
    [update |-> TRUE, id |-> NULL, name |-> NULL, reported |-> msgs, returned |-> FALSE]

\* lines 275-313: the project section. returned: the tab function returns
\* before the content writer section.
ProjectSection(resp, selected_project, custom_name) ==
    IF resp.raises THEN Cleared({"Error fetching projects"})
    ELSE IF resp.status_code # 200 THEN Cleared({"Failed to fetch projects from backend"})
    ELSE IF ~(resp.success /\ resp.listing # <<>>) THEN Cleared({"No projects found"})
    ELSE IF selected_project = SelectPrompt
    THEN [update |-> FALSE, id |-> NULL, name |-> NULL,
          reported |-> {"Please select a project"}, returned |-> TRUE]
    ELSE IF selected_project = OtherCustom
    THEN IF Strip(custom_name) = ""
         THEN [update |-> FALSE, id |-> NULL, name |-> NULL,
               reported |-> {"Please provide a custom project name"}, returned |-> TRUE]
         ELSE [update |-> TRUE, id |-> NULL, name |-> custom_name,
               reported |-> {}, returned |-> FALSE]
    ELSE LET sel == FirstIndex(Names(resp.listing), selected_project)
         IN IF sel # 0
            THEN [update |-> TRUE, id |-> resp.listing[sel].id,
                  name |-> resp.listing[sel].name,
                  reported |-> {"Project Details"}, returned |-> FALSE]
            ELSE [update |-> FALSE, id |-> NULL, name |-> NULL,
                  reported |-> {}, returned |-> FALSE]

\* st.session_state['selected_project_id'] = ..., ['selected_project_name'] = ...
StoreProject(ss, section) ==
    IF section.update
    THEN Put(Put(ss, "selected_project_id", section.id),
             "selected_project_name", section.name)
    ELSE ss

\* the values the project selectbox can hold in a run; fresh: the run is the
\* rerun after a role selection, where every widget has its default
ProjectChoices(resp, fresh) ==
    IF ~resp.raises /\ resp.status_code = 200 /\ resp.success /\ resp.listing # <<>>
    THEN IF fresh THEN {SelectPrompt}
         ELSE {ProjectOptions(resp.listing)[i] : i \in 1..Len(ProjectOptions(resp.listing))}
    ELSE {SelectPrompt}

\* every outcome of the project section over the answers to GET /projects
\* and the widget values
ProjectSections(fresh) ==
    UNION {UNION {{ProjectSection(resp, selected_project, custom_name) :
                     custom_name \in IF selected_project = OtherCustom
                                     THEN CustomNames ELSE {""}} :
                  selected_project \in ProjectChoices(resp, fresh)} :
           resp \in ProjectsResponses}

ProjectSectionsFresh == ProjectSections(TRUE)
ProjectSectionsAny == ProjectSections(FALSE)

\* UploadTab_Start that main() dispatches to whatever the role is
UploadTab_Start_AnyRole ==
    /\ pc = "idle"
    /\ StartRun("upload_and_analyze_tab", "none")
    /\ http' = <<[method |-> "GET", path |-> "/projects"]>>
    /\ reported' = {}
    /\ pc' = "projects" /\ outcome' = "running"
    /\ UNCHANGED <<session_state, rerun>>

\* line 276: a run of the "Upload & Analyze" tab (the default tab of the
\* brand manager) starts and sends GET /projects
UploadTab_Start ==
    /\ pc = "idle"
    /\ Role = "brand_manager"
    /\ StartRun("upload_and_analyze_tab", "none")
    /\ http' = <<[method |-> "GET", path |-> "/projects"]>>
    /\ reported' = {}
    /\ pc' = "projects" /\ outcome' = "running"
    /\ UNCHANGED <<session_state, rerun>>

\* lines 277-321: GET /projects is answered; the project section either
\* returns or goes on to send GET /users
UploadTab_Projects ==
    /\ pc = "projects"
    /\ \E section \in IF rerun THEN ProjectSectionsFresh ELSE ProjectSectionsAny :
         /\ session_state' = StoreProject(session_state, section)
         /\ reported' = section.reported
         /\ IF section.returned
            THEN EndRun("return") /\ UNCHANGED http
            ELSE /\ pc' = "users" /\ outcome' = "running" /\ UNCHANGED rerun
                 /\ http' = Append(http, [method |-> "GET", path |-> "/users"])
    /\ UNCHANGED <<script, pressed, response, frame, download>>

\* ContentWriterId that finds the user by the whole option (name and email)
ContentWriterId_ByOption(resp, selected_content_writer) ==
    IF Recipients(resp) = <<>> \/ selected_content_writer = NoneOption
    THEN NULL
    ELSE LET content_writers == Recipients(resp)
             selected_user == FirstIndex(RecipientOptions(content_writers),
                                         selected_content_writer) - 1
         IN IF selected_user > 0
            THEN content_writers[selected_user].basecamp_user_id
            ELSE NULL

\* lines 320-370: content_writer_id as resolved from the user listing and
\* the selected option
ContentWriterId(resp, selected_content_writer) ==
    IF Recipients(resp) = <<>> \/ selected_content_writer = NoneOption
    THEN NULL
    ELSE LET content_writers == Recipients(resp)
             selected_name == SplitName(selected_content_writer)
             selected_user == FirstIndex(Names(content_writers), selected_name)
         IN IF selected_user # 0
            THEN content_writers[selected_user].basecamp_user_id
            ELSE NULL

\* the messages of the content writer section
ContentWriterReported(resp, content_writer_id) ==
    IF resp.raises THEN {"Error connecting to backend"}
    ELSE IF resp.status_code # 200 THEN {"Backend error"}
    ELSE IF ~(resp.success /\ resp.listing # <<>>)
    THEN {"Failed to fetch users from backend"}
    ELSE (IF Recipients(resp) = <<>>
          THEN {"No content writers available with Basecamp access"} ELSE {})
         \cup (IF Truthy(content_writer_id) THEN {}
               ELSE {"Please select a content writer"})

\* the values a recipient selectbox can hold in a run
RecipientChoices(resp, fresh) ==
    IF Recipients(resp) = <<>> \/ fresh THEN {NoneOption}
    ELSE {RecipientOptions(Recipients(resp))[i] :
            i \in 1..Len(RecipientOptions(Recipients(resp)))}

\* every outcome of the content writer section over the answers to
\* GET /users and the selected option
ContentWriterSections(fresh) ==
    UNION {{[content_writer_id |-> ContentWriterId(resp, selected_content_writer),
             reported |-> ContentWriterReported(resp,
                              ContentWriterId(resp, selected_content_writer))] :
              selected_content_writer \in RecipientChoices(resp, fresh)} :
           resp \in UsersResponses}

ContentWriterSectionsFresh == ContentWriterSections(TRUE)
ContentWriterSectionsAny == ContentWriterSections(FALSE)

\* AnalyzeGate without the content_writer_id check of lines 388-390
AnalyzeGate_NoRecipientCheck(uploaded_file, button, content_writer_id) ==
    IF uploaded_file = NULL THEN "no_button"
    ELSE IF ~button THEN "not_pressed"
    ELSE "post"

\* lines 378-390: what the tab does under the file uploader: the button is
\* rendered only under an uploaded file, and a press without
\* content_writer_id is an error
AnalyzeGate(uploaded_file, button, content_writer_id) ==
    IF uploaded_file = NULL THEN "no_button"
    ELSE IF ~button THEN "not_pressed"
    ELSE IF ~Truthy(content_writer_id) THEN "error"
    ELSE "post"

\* lines 395-410: the request of the Analyze button
UploadRequest(ss, uploaded_file, content_writer_id) ==
    [method |-> "POST", path |-> "/upload",
     files |-> uploaded_file,
     data |-> [content_writer_id |-> content_writer_id,
               project_id |-> Get(ss, "selected_project_id"),
               project_name |-> Get(ss, "selected_project_name")]]

\* lines 322-410: GET /users is answered; the button, when rendered and
\* pressed, is validated and POST /upload is sent
UploadTab_Users ==
    /\ pc = "users"
    /\ \E section \in IF rerun THEN ContentWriterSectionsFresh
                       ELSE ContentWriterSectionsAny,
          uploaded_file \in FileNames \cup {NULL}, button \in BOOLEAN :
      /\ WidgetsMatter(button, uploaded_file, "")
      /\ rerun => (uploaded_file = NULL /\ ~button)
      /\ LET content_writer_id == section.content_writer_id
             gate == AnalyzeGate(uploaded_file, button, content_writer_id)
             locals == [NoFrame EXCEPT !.content_writer_id = content_writer_id,
                                       !.uploaded_file = uploaded_file]
         IN IF gate \in {"no_button", "not_pressed"}
            THEN /\ EndRun("done")
                 /\ reported' = section.reported
                 /\ UNCHANGED <<pressed, frame, http>>
            ELSE IF gate = "error"
            THEN /\ EndRun("return")
                 /\ reported' = section.reported
                                \cup {"Please select a content writer (analyze)"}
                 /\ pressed' = "analyze"
                 /\ frame' = locals
                 /\ UNCHANGED http
            ELSE /\ pc' = "upload" /\ outcome' = "running" /\ UNCHANGED rerun
                 /\ reported' = section.reported
                 /\ pressed' = "analyze"
                 /\ frame' = locals
                 /\ http' = Append(http, UploadRequest(session_state, uploaded_file,
                                                       content_writer_id))
    /\ UNCHANGED <<session_state, script, response, download>>

\* the form_submit_button of the form nested under the Analyze button: in
\* the run in which Analyze is pressed the form is new, so it is not pressed
submit_content_nested == FALSE

\* del st.session_state[k]
Del(s, k) == [a \in (DOMAIN s) \ {k} |-> s[a]]

\* StoreStage1 that starts the workflow over: a new brief drops the
\* designer results of the previous one
StoreStage1_ResetStage2(ss, result, file_name, content_writer_id) ==
    LET stored == Put(Put(Del(ss, "designer_results"), "analysis_results", result),
                      "uploaded_file", file_name)
    IN IF result.shape # "object" \/ result.basecamp_integration = "string"
          \/ result.report_data = "null"
       THEN [session |-> stored, reported |-> {"Unexpected error"}, raised |-> TRUE]
       ELSE [session |-> IF Truthy(result.project_brief_id)
                         THEN Put(Put(stored, "project_brief_id", result.project_brief_id),
                                  "content_writer_id", content_writer_id)
                         ELSE stored,
             reported |-> {}, raised |-> FALSE]

\* StoreStage1 that keeps the first project_brief_id of the session
StoreStage1_KeepFirstId(ss, result, file_name, content_writer_id) ==
    LET stored == Put(Put(ss, "analysis_results", result), "uploaded_file", file_name)
    IN IF result.shape # "object" \/ result.basecamp_integration = "string"
          \/ result.report_data = "null"
       THEN [session |-> stored, reported |-> {"Unexpected error"}, raised |-> TRUE]
       ELSE [session |-> IF Truthy(result.project_brief_id)
                            /\ "project_brief_id" \notin DOMAIN stored
                         THEN Put(Put(stored, "project_brief_id", result.project_brief_id),
                                  "content_writer_id", content_writer_id)
                         ELSE stored,
             reported |-> {}, raised |-> FALSE]

\* StoreStage1 that skips the errors of basecamp_integration (line 431-432)
StoreStage1_SilentErrors(ss, result, file_name, content_writer_id) ==
    LET stored == Put(Put(ss, "analysis_results", result), "uploaded_file", file_name)
    IN IF result.shape # "object" \/ result.basecamp_integration = "string"
          \/ result.report_data = "null"
       THEN [session |-> stored, reported |-> {"Unexpected error"}, raised |-> TRUE]
       ELSE [session |-> IF Truthy(result.project_brief_id)
                         THEN Put(Put(stored, "project_brief_id", result.project_brief_id),
                                  "content_writer_id", content_writer_id)
                         ELSE stored,
             reported |-> {}, raised |-> FALSE]

\* lines 412-465: a 200 response whose body parsed to result. raised: an
\* exception left the block (caught at line 474).
StoreStage1(ss, result, file_name, content_writer_id) ==
    LET stored == Put(Put(ss, "analysis_results", result), "uploaded_file", file_name)
        errs == IF result.shape = "object" /\ result.basecamp_integration = "object"
                   /\ result.errors
                THEN {"Some errors occurred"} ELSE {}
    IN IF result.shape # "object"
       THEN [session |-> stored, reported |-> {"Unexpected error"}, raised |-> TRUE]
       ELSE IF result.basecamp_integration = "string"
       THEN [session |-> stored, reported |-> {"Unexpected error"}, raised |-> TRUE]
       ELSE IF result.report_data = "null"
       THEN [session |-> stored, reported |-> errs \cup {"Unexpected error"},
             raised |-> TRUE]
       ELSE LET ids == IF Truthy(result.project_brief_id)
                       THEN Put(Put(stored, "project_brief_id", result.project_brief_id),
                                "content_writer_id", content_writer_id)
                       ELSE stored
                form == IF submit_content_nested
                        THEN Put(ids, "submitted_content", "draft")
                        ELSE ids
            IN [session |-> form, reported |-> errs, raised |-> FALSE]

\* lines 405-475: the answer to POST /upload
UploadOutcome(ss, resp, file_name, content_writer_id) ==
    IF resp.exc = "Timeout"
    THEN [session |-> ss, reported |-> {"Analysis timed out"}, raised |-> TRUE]
    ELSE IF resp.exc = "ConnectionError"
    THEN [session |-> ss, reported |-> {"Connection error"}, raised |-> TRUE]
    ELSE IF resp.status_code # 200
    THEN [session |-> ss, reported |-> {"Analysis failed"}, raised |-> FALSE]
    ELSE IF ~resp.json
    THEN [session |-> ss, reported |-> {"Unexpected error"}, raised |-> TRUE]
    ELSE StoreStage1(ss, resp.value, file_name, content_writer_id)

UploadTab_Response ==
    /\ pc = "upload"
    /\ \E resp \in UploadResponses :
         LET r == UploadOutcome(session_state, resp, frame.uploaded_file,
                                frame.content_writer_id)
         IN /\ session_state' = r.session
            /\ reported' = r.reported
            /\ response' = resp
    /\ EndRun("done")
    /\ UNCHANGED <<script, pressed, http, frame, download>>


(***************************************************************************)
(* content_writer_submit_tab                                               *)
(***************************************************************************)
\* SubmitGate without the project_brief_id check of lines 658-660
SubmitGate_NoIdCheck(ss) ==
    IF "analysis_results" \notin DOMAIN ss THEN "return"
    ELSE IF ss["analysis_results"].shape # "object" THEN "crash"
    ELSE IF ss["analysis_results"].report_data = "null" THEN "crash"
    ELSE "form"

\* lines 651-660: how the tab ends before the form, "form" when it does not.
\* results.get(...) on a stored non-object, and .get on a null report_data,
\* raise outside any try block.
SubmitGate(ss) ==
    IF "analysis_results" \notin DOMAIN ss THEN "return"
    ELSE IF ss["analysis_results"].shape # "object" THEN "crash"
    ELSE IF ss["analysis_results"].report_data = "null" THEN "crash"
    ELSE IF ~Truthy(ss["analysis_results"].project_brief_id) THEN "return"
    ELSE "form"

\* Run of the "Submit Content" tab that ends before the form
SubmitTab_NoForm ==
    /\ pc = "idle" /\ ~rerun
    /\ Role = "content_writer"
    /\ SubmitGate(session_state) # "form"
    /\ StartRun("content_writer_submit_tab", "none")
    /\ EndRun(SubmitGate(session_state))
    /\ http' = <<>>
    /\ reported' = IF SubmitGate(session_state) = "return" /\ Has("analysis_results")
                   THEN {"No project ID found"} ELSE {}
    /\ UNCHANGED session_state

\* lines 688-723: designer_id as resolved from the user listing and the
\* selected option
DesignerId(resp, selected_designer) ==
    IF Recipients(resp) = <<>> \/ selected_designer = NoneOption
    THEN NULL
    ELSE LET designers == Recipients(resp)
             selected_name == SplitName(selected_designer)
             selected_user == FirstIndex(Names(designers), selected_name)
         IN IF selected_user # 0
            THEN designers[selected_user].basecamp_user_id
            ELSE NULL

DesignerReported(resp) ==
    IF resp.raises THEN {"Error connecting to backend"}
    ELSE IF resp.status_code # 200 THEN {"Backend error"}
    ELSE IF ~(resp.success /\ resp.listing # <<>>) THEN {"Failed to fetch designers"}
    ELSE IF Recipients(resp) = <<>> THEN {"No designers available"}
    ELSE {}

\* every outcome of the designer section over the answers to GET /users
\* and the selected option (the form is never part of a fresh rerun)
DesignerSections ==
    UNION {{[designer_id |-> DesignerId(resp, selected_designer),
             reported |-> DesignerReported(resp)] :
              selected_designer \in RecipientChoices(resp, FALSE)} :
           resp \in UsersResponses}

\* SubmitValidation that takes text and file as alternatives
SubmitValidation_Exclusive(content_file, content_text, designer_id) ==
    IF Truthy(content_file) = (Strip(content_text) # "")
    THEN "Please either upload a content document or enter content text"
    ELSE IF ~Truthy(designer_id)
    THEN "Please select a designer"
    ELSE ""

\* lines 727-735: the validation of a pressed submit button; "" when the
\* submission goes on to the request
SubmitValidation(content_file, content_text, designer_id) ==
    IF ~Truthy(content_file) /\ Strip(content_text) = ""
    THEN "Please either upload a content document or enter content text"
    ELSE IF ~Truthy(designer_id)
    THEN "Please select a designer"
    ELSE ""

\* SubmitRequest that leaves the brief to the backend
SubmitRequest_NoBriefId(project_brief_id, designer_id, content_file, content_text) ==
    [method |-> "POST", path |-> "/submit-content",
     files |-> content_file,
     multipart |-> Truthy(content_file),
     data |-> [project_brief_id |-> NULL,
               designer_id |-> designer_id,
               content_writer_id |-> NULL,
               content_text |-> IF Strip(content_text) # "" THEN content_text ELSE NULL,
               has_file |-> Truthy(content_file)]]

\* lines 739-769: the request of a validated submission
SubmitRequest(project_brief_id, designer_id, content_file, content_text) ==
    [method |-> "POST", path |-> "/submit-content",
     files |-> content_file,
     multipart |-> Truthy(content_file),
     data |-> [project_brief_id |-> project_brief_id,
               designer_id |-> designer_id,
               content_writer_id |-> NULL,
               content_text |-> IF Strip(content_text) # "" THEN content_text ELSE NULL,
               has_file |-> Truthy(content_file)]]

\* lines 662-689: a run of the "Submit Content" tab reaches the form and
\* sends GET /users
SubmitTab_Start ==
    /\ pc = "idle" /\ ~rerun
    /\ Role = "content_writer"
    /\ SubmitGate(session_state) = "form"
    /\ StartRun("content_writer_submit_tab", "none")
    /\ http' = <<[method |-> "GET", path |-> "/users"]>>
    /\ reported' = {}
    /\ pc' = "designers" /\ outcome' = "running"
    /\ UNCHANGED <<session_state, rerun>>

\* lines 690-769: GET /users is answered by resp; a pressed submit button
\* is validated and POST /submit-content is sent
SubmitTab_Form ==
    /\ pc = "designers"
    /\ \E section \in DesignerSections, content_file \in ContentFiles \cup {NULL},
          content_text \in ContentTexts, submit_content \in BOOLEAN :
      /\ WidgetsMatter(submit_content, content_file, content_text)
      /\ LET project_brief_id == session_state["analysis_results"].project_brief_id
             designer_id == section.designer_id
             invalid == SubmitValidation(content_file, content_text, designer_id)
             locals == [NoFrame EXCEPT !.designer_id = designer_id,
                                       !.content_file = content_file,
                                       !.content_text = content_text]
         IN IF ~submit_content
            THEN /\ EndRun("done")
                 /\ reported' = section.reported
                 /\ UNCHANGED <<http, pressed, frame>>
            ELSE IF invalid # ""
            THEN /\ EndRun("return")
                 /\ reported' = section.reported \cup {invalid}
                 /\ pressed' = "submit"
                 /\ frame' = locals
                 /\ UNCHANGED http
            ELSE /\ pc' = "submit" /\ outcome' = "running" /\ UNCHANGED rerun
                 /\ http' = Append(http, SubmitRequest(project_brief_id, designer_id,
                                                       content_file, content_text))
                 /\ reported' = section.reported
                 /\ pressed' = "submit"
                 /\ frame' = locals
    /\ UNCHANGED <<session_state, script, response, download>>

\* SubmitOutcome that stores the parsed body before reading it
SubmitOutcome_StoreFirst(ss, resp) ==
    IF resp.exc # "none"
    THEN [session |-> ss, reported |-> {"Error submitting content"}]
    ELSE IF resp.status_code # 200
    THEN [session |-> ss, reported |-> {"Content submission failed"}]
    ELSE IF ~resp.json
    THEN [session |-> ss, reported |-> {"Error submitting content"}]
    ELSE IF resp.value.shape # "object" \/ resp.value.basecamp_integration = "string"
    THEN [session |-> Put(ss, "designer_results", resp.value),
          reported |-> {"Error submitting content"}]
    ELSE [session |-> Put(ss, "designer_results", resp.value), reported |-> {}]

\* lines 771-790: the answer to POST /submit-content. designer_results is
\* stored last, after every read of the body.
SubmitOutcome(ss, resp) ==
    IF resp.exc # "none"
    THEN [session |-> ss, reported |-> {"Error submitting content"}]
    ELSE IF resp.status_code # 200
    THEN [session |-> ss, reported |-> {"Content submission failed"}]
    ELSE IF ~resp.json
    THEN [session |-> ss, reported |-> {"Error submitting content"}]
    ELSE IF resp.value.shape # "object"
    THEN [session |-> ss, reported |-> {"Error submitting content"}]
    ELSE IF resp.value.basecamp_integration = "string"
    THEN [session |-> ss, reported |-> {"Error submitting content"}]
    ELSE [session |-> Put(ss, "designer_results", resp.value), reported |-> {}]

SubmitTab_Response ==
    /\ pc = "submit"
    /\ \E resp \in SubmitResponses :
         LET r == SubmitOutcome(session_state, resp)
         IN /\ session_state' = r.session
            /\ reported' = r.reported
            /\ response' = resp
    /\ EndRun("done")
    /\ UNCHANGED <<script, pressed, http, frame, download>>

(***************************************************************************)
(* Views                                                                   *)
(***************************************************************************)
\* a run of a tab that sends nothing and stores nothing
View(fn, button, how, msgs) ==
    /\ StartRun(fn, button)
    /\ EndRun(how)
    /\ http' = <<>>
    /\ reported' = msgs
    /\ UNCHANGED session_state

\* lines 481-520: results.get on a stored non-object raises
AnalysisResultsEnd(ss) ==
    IF "analysis_results" \notin DOMAIN ss THEN "return"
    ELSE IF ss["analysis_results"].shape # "object" THEN "crash"
    ELSE "done"

\* datetime.now().strftime('%Y%m%d_%H%M%S') at the time of an export
Clocks == {"20250101_120000", "20250101_120001"}

\* ExportResultsJson that stamps the exported text with the time
ExportResultsJson_Stamped(results, now) ==
    [reported |-> {},
     download |-> [kind |-> "json", data |-> [exported_at |-> now, results |-> results],
                   file_name |-> <<"project_brief_analysis_", now, ".json">>]]

\* lines 943-951: json.dumps(results) under a file name with the time
ExportResultsJson(results, now) ==
    [reported |-> {},
     download |-> [kind |-> "json", data |-> results,
                   file_name |-> <<"project_brief_analysis_", now, ".json">>]]

\* lines 956-978: the fields of results that the summary reads
SummaryData(results) == [basecamp_integration |-> results.basecamp_integration]

\* lines 953-990: .get on a basecamp_integration that is not an object
\* raises, and the except clause reports it
ExportSummaryCsv(results, now) ==
    IF results.basecamp_integration = "string"
    THEN [reported |-> {"Error exporting CSV"}, download |-> NoDownload]
    ELSE [reported |-> {},
          download |-> [kind |-> "csv", data |-> SummaryData(results),
                        file_name |-> <<"project_brief_summary_", now, ".csv">>]]

\* lines 510-520: the export button pressed, if any
Export(export, results, now) ==
    IF export = "json" THEN ExportResultsJson(results, now)
    ELSE IF export = "csv" THEN ExportSummaryCsv(results, now)
    ELSE [reported |-> {}, download |-> NoDownload]

\* "Analysis Results" tab; export is the export button pressed, if any
AnalysisResultsTab(export) ==
    /\ pc = "idle" /\ ~rerun
    /\ Role = "brand_manager"
    /\ export # "none" => AnalysisResultsEnd(session_state) = "done"
    /\ \E now \in Clocks :
         LET shown == IF export = "none" THEN Export(export, NoBody1, now)
                      ELSE Export(export, session_state["analysis_results"], now)
         IN /\ reported' = shown.reported
            /\ download' = shown.download
    /\ script' = "analysis_results_tab"
    /\ pressed' = export
    /\ response' = NoResponse
    /\ frame' = NoFrame
    /\ EndRun(AnalysisResultsEnd(session_state))
    /\ http' = <<>>
    /\ UNCHANGED session_state

\* lines 834-941: the reads of line 868 raise on a stored non-object and on
\* a null report_data; results is bound only under one of the two session
\* keys (867, 898) and read at line 926 in every case, so it is unbound
\* when neither is held; .get at line 938 raises on a basecamp_integration
\* that is not an object. No try block encloses any of them.
ProjectsEnd(ss) ==
    IF "analysis_results" \in DOMAIN ss
       /\ (\/ ss["analysis_results"].shape # "object"
           \/ ss["analysis_results"].report_data = "null")
    THEN "crash"
    ELSE IF "analysis_results" \notin DOMAIN ss /\ "designer_results" \notin DOMAIN ss
    THEN "crash"
    ELSE LET results == IF "designer_results" \in DOMAIN ss
                        THEN ss["designer_results"]
                        ELSE ss["analysis_results"]
         IN IF results.basecamp_integration = "string" THEN "crash" ELSE "done"

\* lines 849-853: the "Completed Projects" metric
CompletedProjects(ss) == IF "designer_results" \in DOMAIN ss THEN 1 ELSE 0

\* lines 864-892: the Stage 2 line of the current project, shown when the
\* reads of line 868 did not raise; "Stage 2 Pending" is a st.warning
Stage2Line(ss) ==
    IF "analysis_results" \notin DOMAIN ss THEN "none"
    ELSE IF ss["analysis_results"].shape # "object" THEN "none"
    ELSE IF ss["analysis_results"].report_data = "null" THEN "none"
    ELSE IF "submitted_content" \in DOMAIN ss THEN "Stage 2 Complete"
    ELSE "Stage 2 Pending"

ProjectsReported(ss) ==
    IF Stage2Line(ss) = "Stage 2 Pending" THEN {"Stage 2 Pending"} ELSE {}

\* "Projects" tab of the brand manager
BrandManagerProjectsTab ==
    /\ pc = "idle" /\ ~rerun
    /\ Role = "brand_manager"
    /\ View("brand_manager_projects_tab", "none", ProjectsEnd(session_state),
            ProjectsReported(session_state))

\* "Sample Brief" tab
SampleBriefTab ==
    /\ pc = "idle" /\ ~rerun
    /\ Role = "brand_manager"
    /\ View("sample_brief_tab", "none", "done", {})

\* lines 602-632
ContentWriterProjectsEnd(ss) ==
    IF "analysis_results" \notin DOMAIN ss THEN "return"
    ELSE IF ss["analysis_results"].shape # "object" THEN "crash"
    ELSE IF ss["analysis_results"].report_data = "null" THEN "crash"
    ELSE "done"

\* "My Projects" tab, the default tab of the content writer
ContentWriterProjectsTab ==
    /\ pc = "idle"
    /\ Role = "content_writer"
    /\ View("content_writer_projects_tab", "none",
            ContentWriterProjectsEnd(session_state), {})

\* lines 796-830
HistoryReported(ss) ==
    IF "designer_results" \in DOMAIN ss
       /\ ss["designer_results"].basecamp_integration = "object"
       /\ ss["designer_results"].errors
    THEN {"Some errors occurred"} ELSE {}

\* "Content History" tab
ContentWriterHistoryTab ==
    /\ pc = "idle" /\ ~rerun
    /\ Role = "content_writer"
    /\ View("content_writer_history_tab", "none",
            IF Has("designer_results") THEN "done" ELSE "return",
            HistoryReported(session_state))

(***************************************************************************)
(* Specification                                                           *)
(***************************************************************************)
Roles == {"brand_manager", "content_writer"}

Next ==
    \/ \E role \in Roles : SelectRole(role)
    \/ ChangeRole
    \/ ShowRoleSelectionPage
    \/ UploadTab_Start
    \/ UploadTab_Projects
    \/ UploadTab_Users
    \/ UploadTab_Response
    \/ SubmitTab_NoForm
    \/ SubmitTab_Start
    \/ SubmitTab_Form
    \/ SubmitTab_Response
    \/ \E export \in {"none", "json", "csv"} : AnalysisResultsTab(export)
    \/ BrandManagerProjectsTab
    \/ SampleBriefTab
    \/ ContentWriterProjectsTab
    \/ ContentWriterHistoryTab

Spec == Init /\ [][Next]_vars

(***************************************************************************)
(* One render with its inputs recorded                                     *)
(*                                                                         *)
(* The sections of a render are functions of the answer to a GET and of    *)
(* the widget values. RenderSpec runs one render of the Upload & Analyze   *)
(* tab, or of the Submit Content tab, with the buttons pressed, from a     *)
(* session the program can be in, and keeps in frame the listings and      *)
(* selections the render saw next to the request it sent in http.          *)
(***************************************************************************)
NoRender == [projects |-> <<>>, selected_project |-> SelectPrompt, custom_name |-> "",
             users |-> <<>>, selected_user |-> NoneOption]

\* sessions at the start of the render: a brand manager before any
\* selection, a brand manager after a custom project "New" was selected in
\* an earlier render, and a content writer holding a Stage-1 result
RenderSessions ==
    {[user_role |-> "brand_manager"],
     [user_role |-> "brand_manager", selected_project_id |-> NULL,
      selected_project_name |-> "New"],
     [user_role |-> "content_writer", uploaded_file |-> "brief.pdf",
      analysis_results |-> [shape |-> "object", report_data |-> "object",
                            project_brief_id |-> "PB1",
                            basecamp_integration |-> "missing", errors |-> FALSE]]}

RenderInit ==
    /\ session_state \in RenderSessions
    /\ pc = "idle"
    /\ rerun = FALSE
    /\ script = IF Role = "brand_manager" THEN "upload_and_analyze_tab"
                ELSE "content_writer_submit_tab"
    /\ pressed = "none"
    /\ outcome = "running"
    /\ http = <<>>
    /\ reported = {}
    /\ response = NoResponse
    /\ frame = NoRender
    /\ download = NoDownload

\* lines 275-313 with the answer and the selection recorded
Render_Projects ==
    /\ pc = "idle" /\ Role = "brand_manager"
    /\ \E resp \in ProjectsResponses :
         \E selected_project \in ProjectChoices(resp, FALSE) :
           \E custom_name \in IF selected_project = OtherCustom THEN CustomNames ELSE {""} :
             LET section == ProjectSection(resp, selected_project, custom_name)
             IN /\ session_state' = StoreProject(session_state, section)
                /\ reported' = section.reported
                /\ frame' = [frame EXCEPT !.projects = resp.listing,
                                          !.selected_project = selected_project,
                                          !.custom_name = custom_name]
                /\ pc' = IF section.returned THEN "returned" ELSE "users"
                /\ outcome' = IF section.returned THEN "return" ELSE "running"
    /\ UNCHANGED <<rerun, script, pressed, http, response, download>>

\* lines 320-410 with the answer and the selection recorded; a file is
\* uploaded and Analyze is pressed
Render_ContentWriter ==
    /\ pc = "users"
    /\ \E resp \in UsersResponses :
         \E selected_content_writer \in RecipientChoices(resp, FALSE) :
           LET content_writer_id == ContentWriterId(resp, selected_content_writer)
               gate == AnalyzeGate("brief.pdf", TRUE, content_writer_id)
           IN /\ frame' = [frame EXCEPT !.users = resp.listing,
                                        !.selected_user = selected_content_writer]
              /\ reported' = ContentWriterReported(resp, content_writer_id)
              /\ pc' = IF gate = "post" THEN "upload" ELSE "returned"
              /\ outcome' = IF gate = "post" THEN "running" ELSE "return"
              /\ http' = IF gate = "post"
                         THEN <<UploadRequest(session_state, "brief.pdf", content_writer_id)>>
                         ELSE <<>>
    /\ pressed' = "analyze"
    /\ UNCHANGED <<session_state, rerun, script, response, download>>

\* lines 688-769 with the answer and the selection recorded; a file is
\* uploaded and the form is submitted
Render_Designer ==
    /\ pc = "idle" /\ Role = "content_writer"
    /\ SubmitGate(session_state) = "form"
    /\ \E resp \in UsersResponses :
         \E selected_designer \in RecipientChoices(resp, FALSE) :
           LET designer_id == DesignerId(resp, selected_designer)
               invalid == SubmitValidation("content.docx", "", designer_id)
           IN /\ frame' = [frame EXCEPT !.users = resp.listing,
                                        !.selected_user = selected_designer]
              /\ reported' = DesignerReported(resp)
                             \cup (IF invalid = "" THEN {} ELSE {invalid})
              /\ pc' = IF invalid = "" THEN "submit" ELSE "returned"
              /\ outcome' = IF invalid = "" THEN "running" ELSE "return"
              /\ http' = IF invalid = ""
                         THEN <<SubmitRequest(session_state["analysis_results"].project_brief_id,
                                              designer_id, "content.docx", "")>>
                         ELSE <<>>
    /\ pressed' = "submit"
    /\ UNCHANGED <<session_state, rerun, script, response, download>>

RenderNext ==
    \/ Render_Projects
    \/ Render_ContentWriter
    \/ Render_Designer

RenderSpec == RenderInit /\ [][RenderNext]_vars


(***************************************************************************)
(* Vocabulary of the properties                                            *)
(***************************************************************************)
UploadTab == "upload_and_analyze_tab"
SubmitTab == "content_writer_submit_tab"

\* the requests of the current or last run to a path
Sent(path) == {i \in DOMAIN http : http[i].path = path}

\* the body of a 200 response is one the code reads without raising
WellFormed(value) ==
    /\ value.shape = "object"
    /\ value.basecamp_integration # "string"
    /\ "report_data" \in DOMAIN value => value.report_data # "null"

\* a successful gateway response: HTTP 200 with a well-formed JSON body
Successful(resp) ==
    /\ resp.exc = "none"
    /\ resp.status_code = 200
    /\ resp.json
    /\ WellFormed(resp.value)

\* report_data.project_brief_id of the Stage-1 result held, NULL if none
BriefIdOf(ss) ==
    IF "analysis_results" \in DOMAIN ss
    THEN ss["analysis_results"].project_brief_id
    ELSE NULL

WorkflowKeys == {"analysis_results", "uploaded_file", "project_brief_id",
                 "content_writer_id", "designer_results", "submitted_content"}

\* the workflow fields of a session: the session without role and selection
Workflow(ss) == [k \in (DOMAIN ss) \cap WorkflowKeys |-> ss[k]]

Stage1Fields == {"analysis_results", "uploaded_file", "project_brief_id",
                 "content_writer_id"}

SameFields(ss, tt, keys) ==
    /\ (DOMAIN ss) \cap keys = (DOMAIN tt) \cap keys
    /\ \A k \in (DOMAIN ss) \cap keys : ss[k] = tt[k]

\* NotStarted = 0, Stage1Complete = 1, Stage2Complete = 2
StageRank(ss) ==
    IF "designer_results" \in DOMAIN ss THEN 2
    ELSE IF "analysis_results" \in DOMAIN ss THEN 1
    ELSE 0

\* the step is the receipt of the answer to POST /upload, /submit-content
UploadAnswered == pc = "upload" /\ pc' = "idle"
SubmitAnswered == pc = "submit" /\ pc' = "idle"

(***************************************************************************)
(* C1..C10                                                                 *)
(***************************************************************************)
\* C1 (as claimed): the session comes to hold a Stage-1 result only in a
\* step that receives a successful response to POST /upload (HTTP 200 with
\* a well-formed body); a timeout, connection failure, other status or
\* malformed body never makes it hold one.
C1_OnlySuccessStoresStage1 ==
    [][(~Has("analysis_results") /\ "analysis_results" \in DOMAIN session_state')
         => (UploadAnswered /\ Successful(response'))]_vars

\* C2: when the Stage-1 result held carries no project_brief_id, or none is
\* held, a run of the Submit Content tab ends before the form and sends no
\* request at all.
C2_NoBriefIdNoRequest ==
    (script = SubmitTab /\ ~Truthy(BriefIdOf(session_state)))
        => (http = <<>> /\ pc = "idle" /\ outcome \in {"return", "crash"})

C2_Witness ==
    /\ script = SubmitTab /\ Role = "content_writer"
    /\ Has("analysis_results") /\ ~Truthy(BriefIdOf(session_state))
    /\ "No project ID found" \in reported
    /\ http = <<>>

C4_FailedUploadKeepsSession ==
    [][(UploadAnswered /\ ~Successful(response'))
         => (SameFields(session_state, session_state', Stage1Fields)
             /\ reported' # {})]_vars

\* C5: when the answer to POST /submit-content is not a successful response
\* the session is unchanged, an error is reported, and the Submit Content
\* tab still shows the form for another attempt.
C5_FailedSubmitKeepsSession ==
    [][(SubmitAnswered /\ ~Successful(response'))
         => /\ session_state' = session_state
            /\ reported' # {}
            /\ SubmitGate(session_state') = "form"
            /\ session_state'["user_role"] = "content_writer"
            /\ ~rerun']_vars

C5_Witness ==
    /\ script = SubmitTab /\ pressed = "submit" /\ pc = "idle"
    /\ response.status_code = 200 /\ response.json
    /\ response.value.shape = "nonobject"
    /\ "Error submitting content" \in reported
    /\ ~Has("designer_results")

\* C6 (as claimed): every POST /upload carries a project name.
C6_UploadHasProject ==
    \A i \in Sent("/upload") : http[i].data.project_name # NULL

\* C7: every POST /upload carries a file and a content writer id; a press
\* of Analyze happens only under an uploaded file, and without a content
\* writer id it reports the validation error and sends nothing.
C7_UploadNeedsFileAndRecipient ==
    /\ \A i \in Sent("/upload") :
          Truthy(http[i].files) /\ Truthy(http[i].data.content_writer_id)
    /\ (script = UploadTab /\ pressed = "analyze")
          => /\ frame.uploaded_file # NULL
             /\ Truthy(frame.content_writer_id)
                \/ (/\ "Please select a content writer (analyze)" \in reported
                    /\ Sent("/upload") = {}
                    /\ pc = "idle")

C7_Witness ==
    /\ script = UploadTab /\ pressed = "analyze"
    /\ "Failed to fetch users from backend" \in reported
    /\ "Please select a content writer (analyze)" \in reported
    /\ Sent("/upload") = {}

\* C8: a pressed submit button sends POST /submit-content exactly when a
\* designer id is resolved and text or file is supplied; otherwise it reports
\* a validation error and sends nothing; with both supplied the one request
\* carries both.
C8_SubmitIffValid ==
    (script = SubmitTab /\ pressed = "submit")
        => LET text == Strip(frame.content_text) # ""
               file == Truthy(frame.content_file)
               valid == Truthy(frame.designer_id) /\ (text \/ file)
               errors == reported \cap
                         {"Please either upload a content document or enter content text",
                          "Please select a designer"}
           IN /\ (Sent("/submit-content") # {}) <=> valid
              /\ ~valid => (errors # {} /\ pc = "idle")
              /\ valid => /\ errors = {}
                          /\ Cardinality(Sent("/submit-content")) = 1
                          /\ \A i \in Sent("/submit-content") :
                               /\ http[i].data.designer_id = frame.designer_id
                               /\ file => http[i].files = frame.content_file
                               /\ text => http[i].data.content_text = frame.content_text

C8_Witness ==
    /\ script = SubmitTab /\ pressed = "submit" /\ pc = "submit"
    /\ frame.content_text = "draft" /\ frame.content_file = "content.docx"
    /\ \E i \in Sent("/submit-content") :
         http[i].data.content_text = "draft" /\ http[i].files = "content.docx"

\* C9: no step moves the stage of the session to an earlier value.
C9_StageOnlyAdvances ==
    [][StageRank(session_state') >= StageRank(session_state)]_vars

C9_Witness ==
    /\ script = UploadTab /\ pressed = "analyze" /\ pc = "idle"
    /\ Successful(response)
    /\ StageRank(session_state) = 2

\* C10: after a successful response to POST /upload that carries
\* report_data.project_brief_id, the session holds that id, the content
\* writer id sent in the request, and the response body as the Stage-1 result.
C10_SuccessStoresIds ==
    (/\ script = UploadTab /\ pressed = "analyze" /\ pc = "idle"
     /\ Successful(response) /\ Truthy(response.value.project_brief_id))
        => /\ Get(session_state, "project_brief_id") = response.value.project_brief_id
           /\ \A i \in Sent("/upload") :
                Get(session_state, "content_writer_id") = http[i].data.content_writer_id
           /\ Sent("/upload") # {}
           /\ Has("analysis_results")
           /\ session_state["analysis_results"] = response.value

C10_Witness ==
    /\ script = UploadTab /\ pressed = "analyze" /\ pc = "idle"
    /\ Successful(response) /\ response.value.project_brief_id = "PB2"
    /\ Get(session_state, "project_brief_id") = "PB2"
    /\ Get(session_state, "content_writer_id") = "u2"
    /\ StageRank(session_state) = 1

(***************************************************************************)
(* C11..C20                                                                *)
(***************************************************************************)
\* C11: the requests of a run are issued under the role of its page: POST
\* /upload (and GET /projects) only while the role is brand_manager, POST
\* /submit-content only while it is content_writer, and while no role is
\* selected no request at all is issued and no script is waiting for one.
C11_RoleGatesRequests ==
    /\ (Sent("/upload") # {} \/ Sent("/projects") # {}) => Role = "brand_manager"
    /\ Sent("/submit-content") # {} => Role = "content_writer"
    /\ Role = NULL => (http = <<>> /\ pc = "idle")
    /\ pc \in {"projects", "users", "upload"} => Role = "brand_manager"
    /\ pc \in {"designers", "submit"} => Role = "content_writer"

C11_Witness ==
    /\ Role = "content_writer" /\ pc = "submit"
    /\ Sent("/submit-content") # {} /\ Sent("/upload") = {}
    /\ Has("analysis_results") /\ Has("designer_results")

\* C12 (as claimed): the step that receives a successful answer to POST
\* /submit-content whose basecamp_integration.errors is non-empty stores the
\* Stage-2 result and reports the errors.
C12_SubmitReportsIntegrationErrors ==
    [][(SubmitAnswered /\ Successful(response') /\ response'.value.errors)
         => /\ "designer_results" \in DOMAIN session_state'
            /\ session_state'["designer_results"] = response'.value
            /\ "Some errors occurred" \in reported']_vars

\* C13: after a successful answer to POST /upload whose
\* basecamp_integration.errors is non-empty the session holds the body as
\* received, the stage is at least Stage1Complete, the errors are reported,
\* and the run has ended having sent POST /upload once.
C13_PartialUploadCompletes ==
    (/\ script = UploadTab /\ pressed = "analyze" /\ pc = "idle"
     /\ Successful(response) /\ response.value.errors)
        => /\ Has("analysis_results")
           /\ session_state["analysis_results"] = response.value
           /\ session_state["analysis_results"].errors
           /\ StageRank(session_state) >= 1
           /\ "Some errors occurred" \in reported
           /\ "Unexpected error" \notin reported
           /\ Cardinality(Sent("/upload")) = 1
           /\ outcome = "done"

C13_Witness ==
    /\ script = UploadTab /\ pressed = "analyze" /\ pc = "idle"
    /\ Successful(response) /\ response.value.errors
    /\ response.value.project_brief_id = "PB1"
    /\ reported = {"Some errors occurred"}
    /\ session_state["analysis_results"] = response.value

\* the users of the listing of the render that have a basecamp_user_id
Eligible == SelectSeq(frame.users, HasBasecampId)

\* the recipient ids carried by the requests of the render
RecipientsSent ==
    {http[i].data.content_writer_id : i \in Sent("/upload")}
    \cup {http[i].data.designer_id : i \in Sent("/submit-content")}

\* C14 (RenderSpec): a recipient id sent in POST /upload or POST
\* /submit-content is the non-null basecamp_user_id of a user of the listing
\* the render fetched, and an option selected in the render is the option of
\* a user of that listing who has a basecamp_user_id.
C14_RecipientFromListing ==
    /\ \A id \in RecipientsSent :
          /\ Truthy(id)
          /\ \E k \in 1..Len(frame.users) : frame.users[k].basecamp_user_id = id
    /\ frame.selected_user # NoneOption
          => \E k \in 1..Len(frame.users) :
                /\ frame.users[k].basecamp_user_id # NULL
                /\ FormatOption(frame.users[k]) = frame.selected_user

C14_Witness ==
    /\ pc = "submit" /\ Role = "content_writer"
    /\ Len(frame.users) = 2
    /\ frame.users[1].basecamp_user_id = NULL
    /\ frame.selected_user = FormatOption(frame.users[2])
    /\ RecipientsSent = {frame.users[2].basecamp_user_id}

\* the tabs that only show what the session holds
ViewTabs == {"analysis_results_tab", "brand_manager_projects_tab", "sample_brief_tab",
             "content_writer_projects_tab", "content_writer_history_tab"}

\* the step is an export that follows an export of the same kind
ExportRepeated ==
    /\ download.kind # "none"
    /\ download'.kind = download.kind

\* C15 (as claimed): a view or export leaves the session unchanged, and an
\* export of the result that was exported before yields the download that
\* it yielded before.
C15_ProjectionIdempotent ==
    [][/\ script' \in ViewTabs => session_state' = session_state
       /\ ExportRepeated => download' = download]_vars

\* C15 (amended): a view or export leaves the session unchanged; the
\* content of an exported download is determined by the Stage-1 result held
\* (the JSON text is the result, the CSV rows its summary), so an export
\* repeated yields the same content; the file name carries the time of the
\* export and nothing else of the download does.
C15_ProjectionContentIdempotent ==
    [][/\ script' \in ViewTabs => session_state' = session_state
       /\ download'.kind = "json" => download'.data = session_state["analysis_results"]
       /\ download'.kind = "csv"
             => download'.data = SummaryData(session_state["analysis_results"])
       /\ ExportRepeated
             => /\ download'.data = download.data
                /\ \A t \in 1..Len(download.file_name) :
                      download'.file_name[t] # download.file_name[t] => t = 2]_vars

C15_Witness ==
    /\ script = "analysis_results_tab" /\ pressed = "csv" /\ outcome = "done"
    /\ download.kind = "csv"
    /\ download.file_name[2] = "20250101_120001"
    /\ Has("designer_results")
    /\ session_state["analysis_results"].errors

\* C16: the session comes to hold a Stage-2 result only in a step taken by
\* the content writer from a session that holds a Stage-1 result with a
\* project_brief_id, on a successful answer to the POST /submit-content that
\* carried that id; the Stage-1 result is kept, so the session then holds
\* both. (That such a step is reached from the empty session is
\* C16_Witness.)
C16_Stage2FromStage1 ==
    [][/\ (~Has("designer_results") /\ "designer_results" \in DOMAIN session_state')
            => /\ SubmitAnswered /\ Successful(response')
               /\ Role = "content_writer"
               /\ Truthy(BriefIdOf(session_state))
               /\ \E i \in Sent("/submit-content") :
                     http[i].data.project_brief_id = BriefIdOf(session_state)
               /\ session_state'["designer_results"] = response'.value
               /\ SameFields(session_state, session_state', Stage1Fields)
       /\ "designer_results" \in DOMAIN session_state'
            => "analysis_results" \in DOMAIN session_state']_vars

C16_Witness ==
    /\ script = SubmitTab /\ pressed = "submit" /\ pc = "idle"
    /\ Role = "content_writer"
    /\ Successful(response)
    /\ Has("analysis_results") /\ Has("designer_results")
    /\ session_state["designer_results"] = response.value
    /\ \E i \in Sent("/submit-content") :
         /\ http[i].data.project_brief_id = BriefIdOf(session_state)
         /\ http[i].data.project_brief_id = Get(session_state, "project_brief_id")

\* C17 (as claimed): after a run of the brand manager's Projects tab, the
\* "Completed Projects" metric shows 1, and the Stage 2 line of the current
\* project shows complete rather than pending, exactly when the session
\* holds designer_results.
C17_CompleteIffStage2Result ==
    (script = "brand_manager_projects_tab" /\ outcome = "done")
        => /\ (CompletedProjects(session_state) = 1) <=> Has("designer_results")
           /\ (Stage2Line(session_state) = "Stage 2 Complete") <=> Has("designer_results")
           /\ ("Stage 2 Pending" \in reported) <=> ~Has("designer_results")

\* the eligible users whose option is the selected one (emails differ, so
\* at most one)
SelectedUsers ==
    {k \in 1..Len(Eligible) : FormatOption(Eligible[k]) = frame.selected_user}

\* the text of the option up to its first " (" is name
NameOfOption(name, option) ==
    /\ \A t \in 1..Len(name) : name[t] # " ("
    /\ Len(name) < Len(option)
    /\ SubSeq(option, 1, Len(name)) = name
    /\ option[Len(name) + 1] = " ("

\* C18 (RenderSpec): the recipient id sent, in POST /upload and in POST
\* /submit-content, is the id of the first eligible user in listing order
\* whose name is the text of the selected option up to its first " ("; when
\* the selected user's name holds no " (", that is the first eligible user
\* with the selected user's name. (That this can be another user than the
\* selected one is C18_Witness.)
C18_FirstMatchByName ==
    \A id \in RecipientsSent :
       /\ SelectedUsers # {}
       /\ \A k \in SelectedUsers :
            \E j \in 1..Len(Eligible) :
               /\ Eligible[j].basecamp_user_id = id
               /\ NameOfOption(Eligible[j].name, frame.selected_user)
               /\ \A h \in 1..(j - 1) : Eligible[h].name # Eligible[j].name
               /\ (\A t \in 1..Len(Eligible[k].name) : Eligible[k].name[t] # " (")
                     => (Eligible[j].name = Eligible[k].name /\ j <= k)

C18_Witness ==
    /\ pc = "upload" /\ Role = "brand_manager"
    /\ Len(Eligible) = 2
    /\ Eligible[1].name = Eligible[2].name
    /\ SelectedUsers = {2}
    /\ RecipientsSent = {Eligible[1].basecamp_user_id}
    /\ Eligible[1].basecamp_user_id # Eligible[2].basecamp_user_id

\* the request describes the custom project entered in the render
SentCustom(data) ==
    /\ frame.selected_project = OtherCustom
    /\ data.project_id = NULL
    /\ data.project_name = frame.custom_name

\* the request describes an active project of the listing of the render
\* whose name is the selected option
SentListed(data) ==
    \E k \in 1..Len(frame.projects) :
       /\ IsActive(frame.projects[k])
       /\ OptionName(frame.projects[k]) = frame.selected_project
       /\ data.project_id = frame.projects[k].id
       /\ data.project_name = frame.projects[k].name

\* C19 (as claimed, RenderSpec): in a render that showed the project
\* selectbox, the project_id and project_name of POST /upload are those of
\* the custom project entered, or of an active project of the listing whose
\* name is the selected option.
C19_UploadDescribesSelection ==
    \A i \in Sent("/upload") :
       frame.selected_project # SelectPrompt
          => (SentCustom(http[i].data) \/ SentListed(http[i].data))

\* C20 (as claimed): whenever the session holds a Stage-1 result, its
\* project_brief_id is set and is the report_data.project_brief_id of that
\* result.
C20_BriefIdFollowsResult ==
    Has("analysis_results")
        => /\ Truthy(Get(session_state, "project_brief_id"))
           /\ Get(session_state, "project_brief_id") = BriefIdOf(session_state)
           /\ Truthy(Get(session_state, "content_writer_id"))

(***************************************************************************)
(* C21..C22                                                                *)
(***************************************************************************)
\* the step stores the answer to a POST /submit-content that carried the
\* project_brief_id of the Stage-1 result the session holds after the step
StoredForCurrentBrief ==
    /\ SubmitAnswered /\ Successful(response')
    /\ session_state'["designer_results"] = response'.value
    /\ \E i \in Sent("/submit-content") :
          http[i].data.project_brief_id = BriefIdOf(session_state')

\* the step keeps a Stage-2 result that was held, and keeps the
\* project_brief_id of the Stage-1 result held with it
KeptWithItsBrief ==
    /\ Has("designer_results")
    /\ session_state'["designer_results"] = session_state["designer_results"]
    /\ BriefIdOf(session_state') = BriefIdOf(session_state)

\* C21 (as claimed): a Stage-2 result in the session is the answer to a
\* POST /submit-content for the project_brief_id of the Stage-1 result held:
\* every step that leaves a Stage-2 result in the session either stores it
\* for the brief held, or keeps it together with the brief it was held with.
C21_Stage2OfCurrentBrief ==
    [][("designer_results" \in DOMAIN session_state')
          => (StoredForCurrentBrief \/ KeptWithItsBrief)]_vars

\* C22 (as claimed): every run of the brand manager's Projects tab, from
\* any session, ends without an unhandled error and leaves the session
\* unchanged.
C22_ProjectsViewNeverFails ==
    [][script' = "brand_manager_projects_tab"
          => (outcome' = "done" /\ session_state' = session_state)]_vars

====
